---- MODULE Spec2Model ----
(***************************************************************************)
(* Haircuts DCV (BanRep): URL resolution engine of app.py and the detail   *)
(* page scan of src/scraper.py.                                            *)
(*                                                                         *)
(* A month is a sequence of one-character strings, so that lower(),        *)
(* upper() and the capitalisation are computed character by character.     *)
(* A file name built by an f-string is the sequence of its pieces, every   *)
(* reserved character (the space) a piece of its own; quote() maps the     *)
(* pieces and the result is joined into one string, the candidate URL.     *)
(***************************************************************************)
EXTENDS Integers, Sequences, FiniteSets, TLC

VARIABLES
    hoy,        \* dt.date.today().year, read once when the module is loaded
    pc,         \* position of resolver_url: "idle", "probing", "done";
                \* "scanned" once encontrar_enlace_xlsx has returned
    tipo,       \* arguments of the current resolver_url call
    anio,
    mes,
    cand,       \* candidate list built by construir_candidatos
    idx,        \* position of the for loop of resolver_url in cand (1-based)
    sondeos,    \* what validar_existencia did for each candidate probed so far
    resultado,  \* first element of the tuple returned by resolver_url
    http,       \* statuses seen by the last validar_existencia call: <<HEAD, GET>>
    pagina,     \* detail page handed to encontrar_enlace_xlsx
    enlace      \* value returned by encontrar_enlace_xlsx

vars == <<hoy, pc, tipo, anio, mes, cand, idx, sondeos, resultado, http, pagina, enlace>>

None == "None"

----------------------------------------------------------------------------
\* Bounds of the model

\* latest year the clock of the host may show
MaxHoy == 2027
\* latest year passed to resolver_url (one past MaxHoy: a year out of the catalog)
MaxAnio == 2028
\* most links on a detail page
MaxEnlaces == 3

----------------------------------------------------------------------------
\* Strings

RECURSIVE Join(_)
Join(s) == IF s = <<>> THEN "" ELSE Head(s) \o Join(Tail(s))

Minusculas == <<"a","b","c","d","e","f","g","h","i","j","k","l","m",
                "n","o","p","q","r","s","t","u","v","w","x","y","z">>
Mayusculas == <<"A","B","C","D","E","F","G","H","I","J","K","L","M",
                "N","O","P","Q","R","S","T","U","V","W","X","Y","Z">>

\* str.lower() and str.upper(), character by character
lower_c(c) == IF \E k \in DOMAIN Mayusculas : Mayusculas[k] = c
              THEN Minusculas[CHOOSE k \in DOMAIN Mayusculas : Mayusculas[k] = c]
              ELSE c
upper_c(c) == IF \E k \in DOMAIN Minusculas : Minusculas[k] = c
              THEN Mayusculas[CHOOSE k \in DOMAIN Minusculas : Minusculas[k] = c]
              ELSE c
lower(s) == [k \in DOMAIN s |-> lower_c(s[k])]
upper(s) == [k \in DOMAIN s |-> upper_c(s[k])]

\* urllib.parse.quote on the pieces of a file name: letters, digits and
\* "_.-~/" are kept, the space becomes %20
quote(piezas) == Join([k \in DOMAIN piezas |-> IF piezas[k] = " " THEN "%20" ELSE piezas[k]])

----------------------------------------------------------------------------
\* Constants and utilities of app.py

BASE_CLOUDFRONT == "https://d1b4gd4m8561gs.cloudfront.net/sites/default/files"

enero      == <<"e","n","e","r","o">>
febrero    == <<"f","e","b","r","e","r","o">>
marzo      == <<"m","a","r","z","o">>
abril      == <<"a","b","r","i","l">>
mayo       == <<"m","a","y","o">>
junio      == <<"j","u","n","i","o">>
julio      == <<"j","u","l","i","o">>
agosto     == <<"a","g","o","s","t","o">>
septiembre == <<"s","e","p","t","i","e","m","b","r","e">>
octubre    == <<"o","c","t","u","b","r","e">>
noviembre  == <<"n","o","v","i","e","m","b","r","e">>
diciembre  == <<"d","i","c","i","e","m","b","r","e">>

MESES == <<enero, febrero, marzo, abril, mayo, junio,
           julio, agosto, septiembre, octubre, noviembre, diciembre>>

Rango(s) == {s[k] : k \in DOMAIN s}

REPOS == "haircuts-repos"
DEUDA == "haircuts-deuda-externa"
TIPOS == <<REPOS, DEUDA>>

mes_capitalizado(m) == upper(SubSeq(m, 1, 1)) \o lower(SubSeq(m, 2, Len(m)))

mes_mayus(m) == upper(m)

----------------------------------------------------------------------------
\* Catalog by (tipo, anio, mes)

RECURSIVE _dedup(_)
_dedup(seq) ==
    IF seq = <<>> THEN <<>>
    ELSE LET ini == _dedup(SubSeq(seq, 1, Len(seq) - 1))
             x   == seq[Len(seq)]
         IN  IF x \in Rango(ini) THEN ini ELSE Append(ini, x)

\* for a in outer: for b in inner: out.append(f(a, b))
RECURSIVE Aplanar(_)
Aplanar(ss) == IF ss = <<>> THEN <<>> ELSE Head(ss) \o Aplanar(Tail(ss))

_urls_legado_por_mes(t, a, m) ==
    LET mes_l   == lower(m)
        mes_cap == mes_capitalizado(mes_l)
        mes_up  == mes_mayus(mes_l)
        A       == ToString(a)
        exts    == IF a \in {2019, 2020} THEN <<"xls">>
                   ELSE IF a \in {2021, 2022, 2023, 2024} THEN <<"xlsx", "xls">>
                   ELSE <<"xlsx">>
        dirs    == <<BASE_CLOUDFRONT, BASE_CLOUDFRONT \o "/paginas">>
        HAIRCUT(d) == d \o "/HAIRCUT_" \o Join(mes_up) \o "_" \o A
        deuda   ==
            IF t = DEUDA
            THEN Aplanar([d \in DOMAIN dirs |->
                     << HAIRCUT(dirs[d]) \o ".pdf",
                        HAIRCUT(dirs[d]) \o ".xls",
                        HAIRCUT(dirs[d]) \o ".xlsx" >>])
                 \o << BASE_CLOUDFRONT \o "/paginas/"
                          \o quote(<<"haircut_">> \o mes_up \o <<"_", A, ".pdf">>),
                       BASE_CLOUDFRONT \o "/"
                          \o quote(<<"Haircut_">> \o mes_l \o <<"_", A, ".pdf">>),
                       BASE_CLOUDFRONT \o "/"
                          \o quote(<<"Haircuts_">> \o mes_l \o <<" ", A, ".pdf">>),
                       BASE_CLOUDFRONT \o "/"
                          \o quote(<<"Haircuts", " ">> \o mes_cap
                                   \o <<" ", "de", " ", A, ".pdf">>) >>
            ELSE <<>>
        prefijos == <<"Haircut", "Haircuts">>
        fname(p, e) == <<p, " ">> \o mes_cap \o <<" ", A, ".", e>>
        planos  ==
            Aplanar([p \in DOMAIN prefijos |->
                Aplanar([e \in DOMAIN exts |->
                    << BASE_CLOUDFRONT \o "/" \o quote(fname(prefijos[p], exts[e])),
                       BASE_CLOUDFRONT \o "/paginas/" \o quote(fname(prefijos[p], exts[e])) >>])])
    IN  _dedup(deuda \o planos)

\* _urls_recientes_por_mes that takes every year from 2024 on for the year of the change
_urls_recientes_desde_2024(t, a, m) ==
    LET mes_l     == lower(m)
        tipo_slug == IF t = DEUDA THEN "deuda-externa" ELSE "repos"
        A         == ToString(a)
        dcv       == BASE_CLOUDFRONT \o "/dcv-haircuts-" \o tipo_slug \o "-" \o Join(mes_l) \o "-" \o A
        sindcv    == BASE_CLOUDFRONT \o "/haircuts-" \o tipo_slug \o "-" \o Join(mes_l) \o "-" \o A
    IN  IF a >= 2024 THEN << dcv \o ".xlsx" >> ELSE << sindcv \o ".xlsx" >>

_urls_recientes_por_mes(t, a, m) ==
    LET mes_l     == lower(m)
        tipo_slug == IF t = DEUDA THEN "deuda-externa" ELSE "repos"
        A         == ToString(a)
        dcv       == BASE_CLOUDFRONT \o "/dcv-haircuts-" \o tipo_slug \o "-" \o Join(mes_l) \o "-" \o A
        sindcv    == BASE_CLOUDFRONT \o "/haircuts-" \o tipo_slug \o "-" \o Join(mes_l) \o "-" \o A
    IN  IF t = DEUDA
        THEN IF a = 2024
             THEN IF mes_l \in {enero, febrero, marzo, abril} THEN << dcv \o ".pdf" >>
                  ELSE IF mes_l = mayo THEN << dcv \o "_0.xlsx" >>
                  ELSE << dcv \o ".xlsx" >>
             ELSE << sindcv \o ".xlsx" >>
        ELSE IF a = 2024
             THEN << dcv \o ".xlsx" >>
             ELSE << sindcv \o ".xlsx" >>

\* Exceptions that are truly unique
EXCEPCIONES_UNICAS ==
    (<<REPOS, 2024, marzo>> :>
        << BASE_CLOUDFRONT \o "/" \o quote(<<"haircut2024-03-27.xls">>) >>)
    @@ (<<DEUDA, 2024, enero>> :>
        << BASE_CLOUDFRONT \o "/" \o quote(<<"Haircut", " ", "Enero", " ", "2024.xlsx">>) >>)
    @@ (<<DEUDA, 2024, marzo>> :>
        << BASE_CLOUDFRONT \o "/haircuts-deuda-externa-marzo-2024.pdf" >>)
    @@ (<<DEUDA, 2024, agosto>> :>
        << BASE_CLOUDFRONT \o "/" \o quote(<<"Haircut-Repos-Agosto-2024.xlsx">>) >>)
    @@ (<<DEUDA, 2021, agosto>> :>
        << BASE_CLOUDFRONT \o "/"
             \o quote(<<"Haircuts", " ", "Agosto", " ", "de", " ", "2021.pdf">>) >>)
    @@ (<<DEUDA, 2021, septiembre>> :>
        << BASE_CLOUDFRONT \o "/"
             \o quote(<<"Haircuts", " ", "Septiembre", " ", "de", " ", "2021.pdf">>) >>)
    @@ (<<DEUDA, 2022, marzo>> :>
        << BASE_CLOUDFRONT \o "/"
             \o quote(<<"Marzo", " ", "2022-Haircuts", " ", "Deuda", " ", "Externa.pdf">>) >>)

\* _estructura_deseada with the lookup of EXCEPCIONES_UNICAS left out
_estructura_sin_excepciones(t, a, m) ==
    IF a >= 2025 THEN _urls_recientes_por_mes(t, a, m)
    ELSE IF a = 2024 /\ lower(m) \in {mayo, junio, julio, septiembre,
                                      octubre, noviembre, diciembre}
         THEN _urls_recientes_por_mes(t, a, m)
         ELSE _urls_legado_por_mes(t, a, m)

_estructura_deseada(t, a, m) ==
    LET key == <<t, a, lower(m)>>
    IN  IF key \in DOMAIN EXCEPCIONES_UNICAS
        THEN EXCEPCIONES_UNICAS[key]
        ELSE IF a >= 2025 THEN _urls_recientes_por_mes(t, a, m)
        ELSE IF a = 2024 /\ lower(m) \in {mayo, junio, julio, septiembre,
                                          octubre, noviembre, diciembre}
             THEN _urls_recientes_por_mes(t, a, m)
             ELSE _urls_legado_por_mes(t, a, m)

\* default of the parameter anio_min of construir_diccionario_completo
ANIO_MIN == 2019

\* construir_diccionario_completo with range(anio_min, anio_max)
construir_diccionario_sin_hoy(anio_min, anio_max) ==
    [key \in Rango(TIPOS) \X (anio_min .. anio_max - 1) \X Rango(MESES) |->
        _estructura_deseada(key[1], key[2], key[3])]

construir_diccionario_completo(anio_min, anio_max) ==
    [key \in Rango(TIPOS) \X (anio_min .. anio_max) \X Rango(MESES) |->
        _estructura_deseada(key[1], key[2], key[3])]

\* the catalog, built when the module is loaded, with anio_max = today's year
EXCEPCIONES == construir_diccionario_completo(ANIO_MIN, hoy)
PREFILL_COMPLETO == TRUE

----------------------------------------------------------------------------
\* Fallback rules

candidatos_reglas(t, a, m) ==
    LET mes_l     == lower(m)
        mes_cap   == mes_capitalizado(mes_l)
        mes_up    == mes_mayus(mes_l)
        A         == ToString(a)
        tipo_slug == IF t = DEUDA THEN "deuda-externa" ELSE "repos"
        dcv       == BASE_CLOUDFRONT \o "/dcv-haircuts-" \o tipo_slug \o "-" \o Join(mes_l) \o "-" \o A
        sindcv    == BASE_CLOUDFRONT \o "/haircuts-" \o tipo_slug \o "-" \o Join(mes_l) \o "-" \o A
        \* 1) recent rule
        reciente  ==
            IF t = DEUDA
            THEN IF a = 2024
                 THEN IF mes_l \in {enero, febrero, marzo, abril} THEN << dcv \o ".pdf" >>
                      ELSE IF mes_l = mayo THEN << dcv \o "_0.xlsx" >>
                      ELSE << dcv \o ".xlsx" >>
                 ELSE << sindcv \o ".xlsx" >>
            ELSE IF a = 2024
                 THEN << dcv \o ".xlsx" >>
                 ELSE << sindcv \o ".xlsx" >>
        prefijos  == <<"Haircut", "Haircuts">>
        fname(p, e) == <<p, " ">> \o mes_cap \o <<" ", A, ".", e>>
        \* 2) legacy patterns in the root
        exts2     == <<"xlsx", "xls">>
        raiz      ==
            Aplanar([p \in DOMAIN prefijos |->
                [e \in DOMAIN exts2 |->
                    BASE_CLOUDFRONT \o "/" \o quote(fname(prefijos[p], exts2[e]))]])
        exts3     == <<"pdf", "xls", "xlsx">>
        raizHAIRCUT ==
            [e \in DOMAIN exts3 |->
                BASE_CLOUDFRONT \o "/HAIRCUT_" \o Join(mes_up) \o "_" \o A \o "." \o exts3[e]]
        guion     ==
            << BASE_CLOUDFRONT \o "/" \o quote(<<"Haircut_">> \o mes_l \o <<"_", A, ".pdf">>),
               BASE_CLOUDFRONT \o "/" \o quote(<<"Haircuts_">> \o mes_l \o <<" ", A, ".pdf">>),
               BASE_CLOUDFRONT \o "/"
                  \o quote(<<"Haircuts", " ">> \o mes_cap \o <<" ", "de", " ", A, ".pdf">>) >>
        \* 3) legacy patterns in /paginas/
        exts4     == <<"xlsx", "xls", "pdf">>
        paginas   ==
            Aplanar([p \in DOMAIN prefijos |->
                [e \in DOMAIN exts4 |->
                    BASE_CLOUDFRONT \o "/paginas/" \o quote(fname(prefijos[p], exts4[e]))]])
        paginasHAIRCUT ==
            Aplanar([e \in DOMAIN exts3 |->
                << BASE_CLOUDFRONT \o "/paginas/HAIRCUT_" \o Join(mes_up) \o "_" \o A
                      \o "." \o exts3[e],
                   BASE_CLOUDFRONT \o "/paginas/"
                      \o quote(<<"haircut_">> \o mes_up \o <<"_", A, ".", exts3[e]>>) >>])
    IN  _dedup(reciente \o raiz \o raizHAIRCUT \o guion \o paginas \o paginasHAIRCUT)

\* the loop "for u in us: if u not in vistos: cand.append(u); vistos.add(u)"
RECURSIVE Agregar(_, _)
Agregar(c, us) ==
    IF us = <<>> THEN c
    ELSE Agregar(IF Head(us) \in Rango(c) THEN c ELSE Append(c, Head(us)), Tail(us))

\* construir_candidatos that joins catalog and fallback rules as they come
construir_candidatos_concatenando(t, a, m) ==
    LET key == <<t, a, lower(m)>>
    IN  IF key \in DOMAIN EXCEPCIONES
        THEN EXCEPCIONES[key] \o candidatos_reglas(t, a, m)
        ELSE candidatos_reglas(t, a, m)

\* construir_candidatos that runs the fallback pass whatever PREFILL_COMPLETO says
construir_candidatos_con_respaldo(t, a, m) ==
    LET key == <<t, a, lower(m)>>
        c1  == IF key \in DOMAIN EXCEPCIONES THEN Agregar(<<>>, EXCEPCIONES[key]) ELSE <<>>
    IN  Agregar(c1, candidatos_reglas(t, a, m))

construir_candidatos(t, a, m) ==
    LET key == <<t, a, lower(m)>>
        c1  == IF key \in DOMAIN EXCEPCIONES THEN Agregar(<<>>, EXCEPCIONES[key]) ELSE <<>>
    IN  IF key \in DOMAIN EXCEPCIONES /\ PREFILL_COMPLETO
        THEN c1
        ELSE Agregar(c1, candidatos_reglas(t, a, m))

----------------------------------------------------------------------------
\* Existence probe

\* what a request gives: a response with a status code, or an exception raised
\* by requests (timeout, connection error); NoEmitido: the request was not issued
Respuesta(n) == [clase |-> "respuesta", status_code |-> n]
Excepcion    == [clase |-> "excepcion", status_code |-> 0]
NoEmitido    == [clase |-> "no emitido", status_code |-> 0]

EstadosHEAD == {Respuesta(n) : n \in {200, 403, 404, 405, 500}} \cup {Excepcion}
EstadosGET  == {Respuesta(n) : n \in {200, 404}} \cup {Excepcion}

\* validar_existencia that escalates to GET on 403 and 405 alone, as its
\* docstring words it
validar_existencia_sin_404(head, get) ==
    IF head = Excepcion THEN FALSE
    ELSE IF head.status_code = 200 THEN TRUE
    ELSE IF head.status_code \in {403, 405}
         THEN IF get = Excepcion THEN FALSE ELSE get.status_code = 200
         ELSE FALSE

\* validar_existencia, given what the server answers to HEAD and to GET
validar_existencia(head, get) ==
    IF head = Excepcion THEN FALSE
    ELSE IF head.status_code = 200 THEN TRUE
    ELSE IF head.status_code \in {403, 404, 405}
         THEN IF get = Excepcion THEN FALSE ELSE get.status_code = 200
         ELSE FALSE

\* the requests validar_existencia issues: <<HEAD, GET>>
peticiones(head, get) ==
    <<head, IF head # Excepcion /\ head.status_code \in {403, 404, 405}
            THEN get ELSE NoEmitido>>

----------------------------------------------------------------------------
\* resolver_url

foo   == <<"f","o","o">>
Marzo == <<"M","a","r","z","o">>

TiposEntrada == Rango(TIPOS)
\* from the year before the catalog starts to a year after it ends
AniosEntrada == (ANIO_MIN - 1) .. MaxAnio
MesesEntrada == Rango(MESES) \cup {foo, Marzo}

\* The module is loaded: the catalog is built with today's year, which is 2026
\* (the date of the refactor, app.py line 8) or later.
Init ==
    /\ hoy \in 2026 .. MaxHoy
    /\ pc = "idle"
    /\ tipo = None /\ anio = 0 /\ mes = <<>>
    /\ cand = <<>> /\ idx = 0 /\ sondeos = <<>> /\ resultado = None
    /\ http = <<NoEmitido, NoEmitido>>
    /\ pagina = [ok |-> TRUE, anclas |-> <<>>] /\ enlace = None

\* cand = construir_candidatos(tipo, anio, mes)
Llamar(t, a, m) ==
    /\ pc = "idle"
    /\ tipo' = t /\ anio' = a /\ mes' = m
    /\ cand' = construir_candidatos(t, a, m)
    /\ idx' = 1
    /\ sondeos' = <<>>
    /\ resultado' = None
    /\ http' = <<NoEmitido, NoEmitido>>
    /\ pc' = "probing"
    /\ UNCHANGED <<hoy, pagina, enlace>>

\* the loop that goes on after a candidate exists and keeps the last one
ProbarSinCorte ==
    /\ pc = "probing"
    /\ idx <= Len(cand)
    /\ \E head \in EstadosHEAD, get \in EstadosGET :
         LET existe == validar_existencia(head, get)
         IN  /\ http' = peticiones(head, get)
             /\ sondeos' = Append(sondeos, [url |-> cand[idx], existe |-> existe])
             /\ resultado' = IF existe THEN cand[idx] ELSE resultado
             /\ idx' = idx + 1
             /\ pc' = IF idx = Len(cand) /\ (existe \/ resultado # None)
                      THEN "done" ELSE "probing"
    /\ UNCHANGED <<hoy, tipo, anio, mes, cand, pagina, enlace>>

\* one iteration of "for u in cand: if validar_existencia(u): return u, cand"
Probar ==
    /\ pc = "probing"
    /\ idx <= Len(cand)
    /\ \E head \in EstadosHEAD, get \in EstadosGET :
         LET existe == validar_existencia(head, get)
         IN  /\ http' = peticiones(head, get)
             /\ sondeos' = Append(sondeos, [url |-> cand[idx], existe |-> existe])
             /\ IF existe
                THEN /\ resultado' = cand[idx]
                     /\ pc' = "done"
                     /\ idx' = idx
                ELSE /\ resultado' = resultado
                     /\ pc' = "probing"
                     /\ idx' = idx + 1
    /\ UNCHANGED <<hoy, tipo, anio, mes, cand, pagina, enlace>>

\* the loop is over: return None, cand
Agotar ==
    /\ pc = "probing"
    /\ idx > Len(cand)
    /\ resultado' = None
    /\ pc' = "done"
    /\ UNCHANGED <<hoy, tipo, anio, mes, cand, idx, sondeos, http, pagina, enlace>>

\* the caller has taken (url, cand); the script waits for the next selection
Volver ==
    /\ pc = "done"
    /\ pc' = "idle"
    /\ tipo' = None /\ anio' = 0 /\ mes' = <<>>
    /\ cand' = <<>> /\ idx' = 0 /\ sondeos' = <<>> /\ resultado' = None
    /\ http' = <<NoEmitido, NoEmitido>>
    /\ UNCHANGED <<hoy, pagina, enlace>>

----------------------------------------------------------------------------
\* src/scraper.py: the scan of a detail page

\* An href is the sequence of its pieces <<origin, directory, name, extension>>,
\* the extension a sequence of characters; the origin is "" in a relative href.
ORIGEN_BANREP == "https://www.banrep.gov.co"
DIR_FILES     == "/sites/default/files/"

Origenes     == {"", "https://d1b4gd4m8561gs.cloudfront.net"}
Directorios  == {DIR_FILES, "/es/sistemas-pago/dcv/"}
Extensiones  == { <<".","x","l","s","x">>, <<".","X","L","S","X">>,
                  <<".","x","l","s">>, <<".","c","s","v">>, <<".","p","d","f">> }
\* every origin and extension under /sites/default/files/, and two relative
\* links elsewhere on the site
Hrefs        == {<<o, DIR_FILES, "haircuts-repos-enero-2026", e>> :
                    o \in Origenes, e \in Extensiones}
                \cup {<<"", d, "haircuts-repos-enero-2026", e>> :
                    d \in Directorios \ {DIR_FILES},
                    e \in { <<".","x","l","s","x">>, <<".","p","d","f">> }}

texto(href)  == href[1] \o href[2] \o href[3] \o Join(href[4])

\* "/sites/default/files/" in href
en_files(href) == DIR_FILES \in {href[1], href[2], href[3]}
\* href.startswith("http")
es_absoluto(href) == href[1] # ""
\* href.lower().endswith(".xlsx")
termina_xlsx(href) == lower(href[4]) = <<".","x","l","s","x">>
\* re.search(r"\.(xls|csv)$", href, flags=re.I)
termina_xls_csv(href) == lower(href[4]) \in { <<".","x","l","s">>, <<".","c","s","v">> }
\* re.search(r"\.xls$", href, flags=re.I)
termina_xls(href) == lower(href[4]) = <<".","x","l","s">>

absoluto(href) == IF es_absoluto(href) THEN texto(href) ELSE ORIGEN_BANREP \o texto(href)

\* what _get_soup gives: the anchors of the page in document order, or None
Soup(anclas) == [ok |-> TRUE, anclas |-> anclas]
SinSoup      == [ok |-> FALSE, anclas |-> <<>>]

RECURSIVE SeqHasta(_, _)
SeqHasta(S, n) ==
    IF n = 0 THEN {<<>>}
    ELSE LET menos == SeqHasta(S, n - 1)
         IN  menos \cup {Append(q, x) : q \in {r \in menos : Len(r) = n - 1}, x \in S}

Paginas == {Soup(a) : a \in SeqHasta(Hrefs, MaxEnlaces)} \cup {SinSoup}

\* index of the first anchor of the page, in document order, whose href is one
\* of aceptados; 0 when the loop ends without a return
Primero(anclas, aceptados) ==
    LET ks == {k \in DOMAIN anclas : anclas[k] \in aceptados}
    IN  IF ks = {} THEN 0 ELSE CHOOSE k \in ks : \A j \in ks : k <= j

\* encontrar_enlace_xlsx whose second loop takes .xls before .csv
encontrar_enlace_por_prioridad(soup) ==
    IF ~soup.ok THEN None
    ELSE LET es_xlsx == {h \in Rango(soup.anclas) : en_files(h) /\ termina_xlsx(h)}
             es_xls  == {h \in Rango(soup.anclas) : en_files(h) /\ termina_xls(h)}
             es_otro == {h \in Rango(soup.anclas) : en_files(h) /\ termina_xls_csv(h)}
             k1 == Primero(soup.anclas, es_xlsx)
             k2 == Primero(soup.anclas, es_xls)
             k3 == Primero(soup.anclas, es_otro)
         IN  IF k1 # 0 THEN absoluto(soup.anclas[k1])
             ELSE IF k2 # 0 THEN absoluto(soup.anclas[k2])
             ELSE IF k3 # 0 THEN absoluto(soup.anclas[k3])
             ELSE None

encontrar_enlace_xlsx(soup) ==
    IF ~soup.ok THEN None
    ELSE LET es_xlsx == {h \in Rango(soup.anclas) : en_files(h) /\ termina_xlsx(h)}
             es_otro == {h \in Rango(soup.anclas) : en_files(h) /\ termina_xls_csv(h)}
             k1 == Primero(soup.anclas, es_xlsx)
             k2 == Primero(soup.anclas, es_otro)
         IN  IF k1 # 0 THEN absoluto(soup.anclas[k1])
             ELSE IF k2 # 0 THEN absoluto(soup.anclas[k2])
             ELSE None

\* encontrar_enlace_xlsx(url_detalle), the page being what the server gives
Escanear(soup) ==
    /\ pc = "idle"
    /\ pagina' = soup
    /\ enlace' = encontrar_enlace_xlsx(soup)
    /\ pc' = "scanned"
    /\ UNCHANGED <<hoy, tipo, anio, mes, cand, idx, sondeos, resultado, http>>

InitScraper ==
    /\ hoy = 2026
    /\ pc = "idle"
    /\ tipo = None /\ anio = 0 /\ mes = <<>>
    /\ cand = <<>> /\ idx = 0 /\ sondeos = <<>> /\ resultado = None
    /\ http = <<NoEmitido, NoEmitido>>
    /\ pagina = Soup(<<>>) /\ enlace = None

NextScraper == \E soup \in Paginas : Escanear(soup)

SpecScraper == InitScraper /\ [][NextScraper]_vars

----------------------------------------------------------------------------
Next ==
    \/ \E t \in TiposEntrada, a \in AniosEntrada, m \in MesesEntrada : Llamar(t, a, m)
    \/ Probar
    \/ Agotar
    \/ Volver

Spec == Init /\ [][Next]_vars

\* resolver_url runs in one thread and every request carries a timeout, so an
\* iteration that can be taken is taken, and so is the return after the loop
FairSpec == Spec /\ WF_vars(Probar) /\ WF_vars(Agotar)
----------------------------------------------------------------------------
\* Properties

\* a resolver_url call is under way or has returned
EnLlamada == pc \in {"probing", "done"}
\* construir_candidatos has just returned cand to resolver_url
Construido == pc = "probing" /\ sondeos = <<>>
key_actual == <<tipo, anio, lower(mes)>>
EsMesCanonico(m) == m \in Rango(MESES)
EnRangoSoportado == /\ tipo \in Rango(TIPOS)
                    /\ anio \in ANIO_MIN .. hoy
                    /\ EsMesCanonico(mes)

\* validar_existencia reported that cand[k] exists
Reportado(k) == \E s \in DOMAIN sondeos : sondeos[s].url = cand[k] /\ sondeos[s].existe

\* C1: when resolver_url returns a URL u with the list cand, u is an element of
\* cand and the earliest element of cand that validar_existencia reported as
\* existing; when it returns None, no element of cand was reported as existing.
C1_PrimerExistente ==
    pc = "done" =>
        IF resultado # None
        THEN \E k \in DOMAIN cand :
                /\ cand[k] = resultado
                /\ Reportado(k)
                /\ \A j \in 1 .. (k - 1) : ~Reportado(j)
        ELSE \A k \in DOMAIN cand : ~Reportado(k)

\* C1 witness: a URL is returned after an earlier candidate was reported missing
C1_Witness ==
    /\ pc = "done" /\ resultado # None
    /\ Len(sondeos) >= 2
    /\ resultado = cand[Len(sondeos)]

\* C2 (as claimed): a call with a month that is none of the twelve names (not
\* even when lower-cased, as the code lower-cases it for its lookups) fails
\* with InvalidInput before a candidate list is built or a probe is issued.
C2_MesDesconocidoFalla ==
    (EnLlamada /\ ~EsMesCanonico(lower(mes))) =>
        /\ resultado = "InvalidInput"
        /\ cand = <<>>
        /\ sondeos = <<>>

\* C3: for every period key that has an entry in EXCEPCIONES_UNICAS the
\* candidate list begins with the override list, entry for entry and in order.
C3_ExcepcionPrimero ==
    (Construido /\ key_actual \in DOMAIN EXCEPCIONES_UNICAS) =>
        LET ov == EXCEPCIONES_UNICAS[key_actual]
        IN  /\ Len(cand) >= Len(ov)
            /\ SubSeq(cand, 1, Len(ov)) = ov

\* C3 witness: the override of external debt, August 2021, heads the list
C3_Witness ==
    /\ Construido
    /\ tipo = DEUDA /\ anio = 2021 /\ mes = agosto
    /\ cand[1] = "https://d1b4gd4m8561gs.cloudfront.net/sites/default/files/Haircuts%20Agosto%20de%202021.pdf"

PdfTransicionEnero2024 ==
    { "https://d1b4gd4m8561gs.cloudfront.net/sites/default/files/dcv-haircuts-deuda-externa-enero-2024.pdf",
      "https://d1b4gd4m8561gs.cloudfront.net/sites/default/files/haircuts-deuda-externa-enero-2024.pdf" }

\* C4 (as claimed): for external debt, January 2024, the first candidate is the
\* transition-era PDF template of that month.
C4_PdfPrimero ==
    (Construido /\ tipo = DEUDA /\ anio = 2024 /\ mes = enero) =>
        /\ cand # <<>>
        /\ cand[1] \in PdfTransicionEnero2024

\* C4 (amended): for external debt, January 2024, the candidate list is the
\* single override "Haircut Enero 2024.xlsx" in the root, and the transition-era
\* PDF templates are not in the list.
C4_ExcepcionXlsx ==
    (Construido /\ tipo = DEUDA /\ anio = 2024 /\ mes = enero) =>
        /\ cand = << "https://d1b4gd4m8561gs.cloudfront.net/sites/default/files/Haircut%20Enero%202024.xlsx" >>
        /\ Rango(cand) \cap PdfTransicionEnero2024 = {}

\* C4 witness: the call for external debt, January 2024 has built its list
C4_Witness ==
    /\ Construido /\ tipo = DEUDA /\ anio = 2024 /\ mes = enero
    /\ Len(cand) = 1

\* C5 (as claimed): for a period (a category, a year from 2019 on, one of the
\* twelve months) with no override the list is the catalog output followed by
\* the fallback candidates not yet in it.
C5_RespaldoSiempre ==
    (/\ Construido
     /\ tipo \in Rango(TIPOS) /\ anio >= ANIO_MIN /\ EsMesCanonico(mes)
     /\ key_actual \notin DOMAIN EXCEPCIONES_UNICAS) =>
        cand = Agregar(_estructura_deseada(tipo, anio, mes), candidatos_reglas(tipo, anio, mes))

\* C5 (amended): for a period whose key is in the catalog (both categories,
\* 2019..current year, the twelve months), with or without an override, the
\* list is the catalog entry, with no fallback candidate appended; for every
\* other period the list is the output of candidatos_reglas alone.
C5_RespaldoSoloFueraDelCatalogo ==
    Construido =>
        IF /\ tipo \in Rango(TIPOS)
           /\ anio \in ANIO_MIN .. hoy
           /\ EsMesCanonico(lower(mes))
        THEN cand = _estructura_deseada(tipo, anio, lower(mes))
        ELSE cand = candidatos_reglas(tipo, anio, mes)

\* C5 witness: a period of the catalog without override whose fallback pass
\* would have added candidates, and a period outside the catalog
C5_Witness ==
    /\ Construido
    /\ tipo = REPOS /\ anio = 2019 /\ mes = enero
    /\ key_actual \notin DOMAIN EXCEPCIONES_UNICAS
    /\ Len(cand) = 4
    /\ Len(Agregar(cand, candidatos_reglas(tipo, anio, mes))) > Len(cand)

\* C6 (as claimed): for repos, 2024, May to December, the first candidate is
\* dcv-haircuts-repos-{mes}-2024.xlsx.
C6_ReposDcv2024 ==
    (Construido /\ tipo = REPOS /\ anio = 2024
       /\ mes \in {mayo, junio, julio, agosto, septiembre, octubre, noviembre, diciembre}) =>
        /\ cand # <<>>
        /\ cand[1] = BASE_CLOUDFRONT \o "/dcv-haircuts-repos-" \o Join(mes) \o "-2024.xlsx"

\* C7: the candidate list holds no string twice, whatever the input.
C7_SinDuplicados ==
    Construido => \A j, k \in DOMAIN cand : cand[j] = cand[k] => j = k

\* C7 witness: a year after the catalog, the list being the long fallback list
C7_Witness ==
    /\ Construido
    /\ anio > hoy
    /\ Len(cand) >= 20

\* C8: for both categories, every year from 2019 to the current year and each
\* of the twelve months, the catalog has an entry and the entry is not empty.
C8_CatalogoTotal ==
    /\ pc = "idle" =>
          \A t \in Rango(TIPOS), a \in ANIO_MIN .. hoy, m \in Rango(MESES) :
              /\ <<t, a, m>> \in DOMAIN EXCEPCIONES
              /\ Len(EXCEPCIONES[<<t, a, m>>]) >= 1
    /\ (Construido /\ EnRangoSoportado) =>
          /\ <<tipo, anio, mes>> \in DOMAIN EXCEPCIONES
          /\ Len(EXCEPCIONES[<<tipo, anio, mes>>]) >= 1
          /\ Len(cand) >= 1

\* C8 witness: the last month of the current year, looked up in the catalog
C8_Witness ==
    /\ Construido
    /\ tipo = DEUDA /\ anio = hoy /\ mes = diciembre
    /\ Len(EXCEPCIONES[<<tipo, anio, mes>>]) = 1

\* C9: for both categories, every year >= 2025 and every canonical month, the
\* first candidate is haircuts-{repos|deuda-externa}-{mes}-{anio}.xlsx, without
\* the dcv- prefix.
C9_EraActual ==
    (Construido /\ tipo \in Rango(TIPOS) /\ anio >= 2025 /\ EsMesCanonico(mes)) =>
        /\ cand # <<>>
        /\ cand[1] = BASE_CLOUDFRONT \o "/haircuts-"
                        \o (IF tipo = REPOS THEN "repos" ELSE "deuda-externa")
                        \o "-" \o Join(mes) \o "-" \o ToString(anio) \o ".xlsx"

\* C9 witness: repos, December 2025
C9_Witness ==
    /\ Construido
    /\ tipo = REPOS /\ anio = 2025 /\ mes = diciembre
    /\ cand[1] = "https://d1b4gd4m8561gs.cloudfront.net/sites/default/files/haircuts-repos-diciembre-2025.xlsx"

\* the attachments of the scanned page: anchors under /sites/default/files/
\* with one of the extensions given
Adjuntos(exts) ==
    {k \in DOMAIN pagina.anclas :
        en_files(pagina.anclas[k]) /\ lower(pagina.anclas[k][4]) \in exts}
XLSX == <<".","x","l","s","x">>
XLS  == <<".","x","l","s">>
CSV  == <<".","c","s","v">>
PDF  == <<".","p","d","f">>
EsEnlace(k) == enlace = absoluto(pagina.anclas[k])

\* C10 (as claimed): the link returned is the one whose extension ranks highest
\* in .xlsx > .xls > .csv > .pdf; None only when the page has no attachment
\* link or cannot be fetched.
C10_PrioridadFija ==
    (pc = "scanned" /\ pagina.ok) =>
        /\ (Adjuntos({XLSX}) = {} /\ Adjuntos({XLS}) # {}) =>
               \E k \in Adjuntos({XLS}) : EsEnlace(k)
        /\ (Adjuntos({XLSX, XLS, CSV}) = {} /\ Adjuntos({PDF}) # {}) =>
               \E k \in Adjuntos({PDF}) : EsEnlace(k)
        /\ enlace = None => Adjuntos({XLSX, XLS, CSV, PDF}) = {}

\* C10 (amended): the first .xlsx link under /sites/default/files/ is returned
\* if there is one; otherwise the first link under that path that ends in .xls
\* or .csv, in page order, with no preference between the two; a .pdf link is
\* never returned; None is returned exactly when the page has no such link or
\* cannot be fetched.
C10_XlsxLuegoPrimerXlsCsv ==
    pc = "scanned" =>
        /\ ~pagina.ok => enlace = None
        /\ pagina.ok =>
             /\ Adjuntos({XLSX}) # {} =>
                   \E k \in Adjuntos({XLSX}) :
                       EsEnlace(k) /\ \A j \in Adjuntos({XLSX}) : k <= j
             /\ (Adjuntos({XLSX}) = {} /\ Adjuntos({XLS, CSV}) # {}) =>
                   \E k \in Adjuntos({XLS, CSV}) :
                       EsEnlace(k) /\ \A j \in Adjuntos({XLS, CSV}) : k <= j
             /\ (enlace = None) <=> (Adjuntos({XLSX, XLS, CSV}) = {})
             /\ \A k \in Adjuntos({PDF}) : ~EsEnlace(k)

\* C10 witness: a .csv link ahead of an .xls link, the .csv link returned
C10_Witness ==
    /\ pc = "scanned" /\ pagina.ok
    /\ Len(pagina.anclas) = 2
    /\ Adjuntos({CSV}) = {1} /\ Adjuntos({XLS}) = {2}
    /\ enlace = "https://www.banrep.gov.co/sites/default/files/haircuts-repos-enero-2026.csv"

\* the last probe of the current call
UltimoSondeo == sondeos[Len(sondeos)]
HeadAmbiguo == http[1].clase = "respuesta" /\ http[1].status_code \in {403, 404, 405}

SondeosEnOrden ==
    /\ Len(sondeos) <= Len(cand)
    /\ \A s \in DOMAIN sondeos : sondeos[s].url = cand[s]
    /\ \A s \in DOMAIN sondeos : sondeos[s].existe => s = Len(sondeos)

\* C12 (state part): probes follow the list order, each candidate at most once;
\* a probe that reports existence ends the call in Found with that candidate;
\* Exhausted (None) is reached only after every candidate was probed once, none
\* existing; in both terminal states the list returned is the full list
\* construir_candidatos built.
C12_Estados ==
    EnLlamada =>
        /\ SondeosEnOrden
        /\ (sondeos # <<>> /\ UltimoSondeo.existe) =>
              pc = "done" /\ resultado = cand[Len(sondeos)]
        /\ (pc = "done" /\ resultado # None) =>
              sondeos # <<>> /\ UltimoSondeo.existe
        /\ (pc = "done" /\ resultado = None) =>
              /\ Len(sondeos) = Len(cand)
              /\ \A s \in DOMAIN sondeos : ~sondeos[s].existe
        /\ pc = "done" => cand = construir_candidatos(tipo, anio, mes)

\* C12 (step part): during a call a step adds at most one probe, the probe of
\* the next candidate of the list, and leaves the list as it is; once a
\* terminal state is reached nothing more is probed.
C12_Pasos ==
    (EnLlamada /\ pc' # "idle") =>
        /\ cand' = cand
        /\ \/ sondeos' = sondeos
           \/ /\ pc = "probing"
              /\ Len(sondeos') = Len(sondeos) + 1
              /\ SubSeq(sondeos', 1, Len(sondeos)) = sondeos
              /\ sondeos'[Len(sondeos')].url = cand[Len(sondeos) + 1]
        /\ pc = "done" => sondeos' = sondeos /\ resultado' = resultado

\* C12: the candidates are probed one at a time in list order, each at most
\* once; the first probe that reports existence ends the call in Found and no
\* later candidate is probed; with no such probe the call ends in Exhausted
\* after every candidate was probed once; the full, unmodified list comes with
\* the result; and every call reaches one of the two terminal states.
C12_SondeoEnOrdenYTermina ==
    /\ []C12_Estados
    /\ [][C12_Pasos]_vars
    /\ (pc = "probing") ~> (pc = "done")

\* C12 witness: Exhausted after a list of several candidates was probed through
C12_Witness ==
    /\ pc = "done" /\ resultado = None
    /\ Len(cand) >= 4
    /\ Len(sondeos) = Len(cand)
====
